---------------------------- MODULE Spec2Model ----------------------------
(***************************************************************************)
(* MidiJack plugin (VisualStudio/MidiJackPlugin/MidiJackPlugin.cpp) and    *)
(* its console client (VisualStudio/MidiJackTest/MidiJackTest.cpp).        *)
(*                                                                         *)
(* Unsigned integers of the program are little-endian byte sequences       *)
(* (uint8_t: 1 byte, uint32_t: 4 bytes, uint64_t and HMIDIIN: 8 bytes), so  *)
(* that shifts, masks and narrowing casts are computed at full width.      *)
(***************************************************************************)
EXTENDS Integers, Sequences, FiniteSets, TLC

(***************************************************************************)
(* Fixed-width unsigned arithmetic                                         *)
(***************************************************************************)

\* byte j (1 = least significant) of the byte sequence x; 0 beyond its width
Byte(x, j) == IF j >= 1 /\ j <= Len(x) THEN x[j] ELSE 0

\* a & b on bytes, bit by bit
ByteAnd(a, b) ==
    IF a = 0 \/ b = 0 THEN 0
    ELSE IF a = 255 THEN b
    ELSE IF b = 255 THEN a
    ELSE LET bit(v, k) == (v \div (2 ^ k)) % 2
             and(k) == bit(a, k) * bit(b, k) * (2 ^ k)
         IN  and(0) + and(1) + and(2) + and(3) + and(4) + and(5) + and(6) + and(7)
\* a | b on bytes
ByteOr(a, b) == a + b - ByteAnd(a, b)

\* Each operation binds its operands once, as the values a \in {x}, and
\* computes on those.

\* conversion of x to an unsigned type of n bytes (narrowing or zero extension)
Cast(x, n) ==
    CHOOSE c \in {SubSeq([j \in 1..n |-> Byte(a, j)], 1, n) : a \in {x}} : TRUE

\* x << s at the width of x: whole bytes move up by s \div 8, the remaining
\* s % 8 bits carry from each byte into the next
Shl(x, s) ==
    LET q == s \div 8
        r == s % 8
    IN  CHOOSE c \in
            {SubSeq([j \in 1..Len(a) |->
                        ((Byte(a, j - q) * (2 ^ r)) % 256)
                            + (Byte(a, j - q - 1) \div (2 ^ (8 - r)))],
                    1, Len(a)) : a \in {x}} : TRUE

\* x >> s at the width of x
Shr(x, s) ==
    LET q == s \div 8
        r == s % 8
    IN  CHOOSE c \in
            {SubSeq([j \in 1..Len(a) |->
                        (Byte(a, j + q) \div (2 ^ r))
                            + ((Byte(a, j + q + 1) * (2 ^ (8 - r))) % 256)],
                    1, Len(a)) : a \in {x}} : TRUE

\* x | y and x & y, operands of equal width
BitOr(x, y) ==
    CHOOSE c \in {SubSeq([j \in 1..Len(a) |-> ByteOr(a[j], b[j])], 1, Len(a)) :
                    a \in {x}, b \in {y}} : TRUE
BitAnd(x, y) ==
    CHOOSE c \in {SubSeq([j \in 1..Len(a) |-> ByteAnd(a[j], b[j])], 1, Len(a)) :
                    a \in {x}, b \in {y}} : TRUE

Zero32 == <<0, 0, 0, 0>>
Zero64 == <<0, 0, 0, 0, 0, 0, 0, 0>>
\* the literals 0xFFFFFFFF and 0xFF at 64 bits
Mask32 == <<255, 255, 255, 255, 0, 0, 0, 0>>
Mask8 == <<255, 0, 0, 0, 0, 0, 0, 0>>

(***************************************************************************)
(* Message codec                                                           *)
(***************************************************************************)

\* MidiMessage::MidiMessage(DeviceID source, uint32_t rawData)
MidiMessage(source, rawData) ==
    [source_ |-> source,
     status_ |-> Cast(rawData, 1),
     data1_  |-> Cast(Shr(rawData, 8), 1),
     data2_  |-> Cast(Shr(rawData, 16), 1)]

\* a codec that packs data1 at the status position
Encode64BitData1At32(m) ==
    LET ul0 == Cast(m.source_, 8)
        ul1 == BitOr(ul0, Shl(Cast(m.status_, 8), 32))
        ul2 == BitOr(ul1, Shl(Cast(m.data1_, 8), 32))
        ul3 == BitOr(ul2, Shl(Cast(m.data2_, 8), 48))
    IN  ul3

\* a codec that drops the status byte
Encode64BitNoStatus(m) ==
    LET ul0 == Cast(m.source_, 8)
        ul2 == BitOr(ul0, Shl(Cast(m.data1_, 8), 40))
        ul3 == BitOr(ul2, Shl(Cast(m.data2_, 8), 48))
    IN  ul3

\* MidiMessage::Encode64Bit
Encode64Bit(m) ==
    LET ul0 == Cast(m.source_, 8)
        ul1 == BitOr(ul0, Shl(Cast(m.status_, 8), 32))
        ul2 == BitOr(ul1, Shl(Cast(m.data1_, 8), 40))
        ul3 == BitOr(ul2, Shl(Cast(m.data2_, 8), 48))
    IN  ul3

\* the client's decoding of a dequeued value (MidiJackTest.cpp, main)
ClientDecode(msg) ==
    [source |-> Cast(BitAnd(Shr(msg, 0), Mask32), 4),
     status |-> Cast(BitAnd(Shr(msg, 32), Mask8), 1),
     data1  |-> Cast(BitAnd(Shr(msg, 40), Mask8), 1),
     data2  |-> Cast(BitAnd(Shr(msg, 48), Mask8), 1)]

(***************************************************************************)
(* Bounds and the environment                                              *)
(***************************************************************************)

\* what midiInGetNumDevs() reports: devices 0 .. NumDevs-1
NumDevs == 2
\* MIM_DATA callbacks each driver thread delivers
MsgsPerProducer == 1
\* calls of RefreshDevices / CloseAllDevices the lifecycle thread makes
MaxLifecycleCalls == 2

Events == {"MIM_DATA", "MIM_CLOSE"}

\* host threads calling the exported functions; "main" also runs the lifecycle
Hosts == {"main", "poll"}
\* driver threads on which the OS invokes MidiInProc
Producers == {"drv1", "drv2"}
Threads == Hosts \cup Producers

\* the workloads explored, each giving the number of lifecycle calls "main"
\* makes, whether it uses the enumeration and name queries, the host threads
\* that poll the queue, the MIM_DATA events each driver thread delivers, the
\* kinds of event the OS delivers, and whether midiInOpen, midiInStart and
\* midiInGetDevCaps can fail:
\*   lifecycle  refreshes and queries with failing OS calls, no callbacks
\*   callbacks  refreshes racing with the callbacks of one driver thread
\*   queue      two driver threads and one polling host
\*   pollers    one driver thread and two polling hosts
\*   failures   one refresh with failing OS calls racing with callbacks
Scenarios ==
    {[name |-> "lifecycle", calls |-> MaxLifecycleCalls, queries |-> TRUE,
      pollers |-> {}, data |-> [t \in Producers |-> 0],
      events |-> {"MIM_DATA"}, failures |-> TRUE],
     [name |-> "callbacks", calls |-> MaxLifecycleCalls, queries |-> FALSE,
      pollers |-> {},
      data |-> [t \in Producers |-> IF t = "drv1" THEN MsgsPerProducer ELSE 0],
      events |-> Events, failures |-> FALSE],
     [name |-> "queue", calls |-> 1, queries |-> FALSE, pollers |-> {"main"},
      data |-> [t \in Producers |-> MsgsPerProducer],
      events |-> {"MIM_DATA"}, failures |-> FALSE],
     [name |-> "pollers", calls |-> 1, queries |-> FALSE, pollers |-> Hosts,
      data |-> [t \in Producers |-> IF t = "drv1" THEN MsgsPerProducer ELSE 0],
      events |-> {"MIM_DATA"}, failures |-> FALSE],
     [name |-> "failures", calls |-> 1, queries |-> FALSE, pollers |-> {},
      data |-> [t \in Producers |-> IF t = "drv1" THEN MsgsPerProducer ELSE 0],
      events |-> {"MIM_DATA"}, failures |-> TRUE]}

\* values midiInOpen may hand out as HMIDIIN (64-bit); the first two differ
\* only above bit 31
HandlePool ==
    {<<16, 0, 0, 0, 0, 0, 0, 0>>,
     <<16, 0, 0, 0, 1, 0, 0, 0>>,
     <<32, 0, 0, 0, 0, 0, 0, 0>>}
NullHandle == Zero64

\* dwParam1 (DWORD_PTR) of the MIM_DATA events a driver thread delivers: the
\* low byte is a MIDI status byte (bit 7 set), then two data bytes, the high
\* bytes unused; a note-on from one device, a timing clock from the other
Payload(t) == IF t = "drv1" THEN <<144, 60, 127, 0, 0, 0, 0, 0>>
              ELSE <<248, 0, 0, 1, 0, 0, 0, 0>>

\* MIDIINCAPS.szPname (wide characters) the driver reports for device d:
\* "M0" for device 0, and names whose first character is above 255 for the
\* others
szPname(d) == <<77 + 256 * d, 48 + d>>
\* the characters of the literal "unknown"
Unknown == <<117, 110, 107, 110, 111, 119, 110>>

\* end() of active_handles
ListEnd == <<>>

VARIABLES
    handle_to_device_info,  \* std::map<DeviceHandle, DeviceInfo>
    endpoint_id_to_handle,  \* std::map<EndpointID, DeviceHandle>
    message_queue,          \* std::queue<MidiMessage>
    active_handles,         \* std::list<DeviceHandle>
    resource_lock,          \* std::recursive_mutex: owner and depth
    os_handles,             \* handles open at the OS: device, started?
    pc,                     \* each thread's position
    cb,                     \* MidiInProc's arguments and locals, per driver thread
    host,                   \* the exported call in progress, per host thread
    lc,                     \* locals of the lifecycle functions (thread "main")
    fault,                  \* undefined behaviour that was executed, or "none"
    pushed,                 \* history: messages in the order they were pushed
    returned,               \* history: non-zero values in the order they were popped
    ndata,                  \* history: MIM_DATA events delivered, per driver thread
    ncalls,                 \* history: lifecycle calls made
    scenario,               \* the workload, fixed at the start
    codec                   \* codec evaluation (specification CodecSpec)

registry == <<handle_to_device_info, endpoint_id_to_handle, active_handles>>
history == <<pushed, returned, ndata, ncalls, scenario, codec>>
vars == <<handle_to_device_info, endpoint_id_to_handle, message_queue,
          active_handles, resource_lock, os_handles, pc, cb, host, lc, fault,
          pushed, returned, ndata, ncalls, scenario, codec>>

(***************************************************************************)
(* Containers and the lock                                                 *)
(***************************************************************************)

\* DeviceInfo info = {} / the value std::map::operator[] inserts
DefaultDeviceInfo ==
    [handle |-> NullHandle, deviceId |-> 0, endpointId |-> Zero32, deviceCaps |-> <<>>]

EmptyMap == [k \in {} |-> k]
\* m after m[k] was evaluated: operator[] inserts a value-initialised entry
MapIndex(m, k, dflt) == IF k \in DOMAIN m THEN m ELSE (k :> dflt) @@ m
\* m after m[k] = v
MapAssign(m, k, v) == (k :> v) @@ m
\* m after m.erase(k)
MapErase(m, k) == [x \in DOMAIN m \ {k} |-> m[x]]

\* a remove that leaves the list as it is
ListRemoveNone(l, v) == l

\* std::list::remove
ListRemove(l, v) == SelectSeq(l, LAMBDA x : x # v)
ListHas(l, v) == \E i \in 1..Len(l) : l[i] = v
\* the node after the one holding v, or end()
ListNext(l, v) ==
    LET at == {i \in 1..Len(l) : l[i] = v}
        i == CHOOSE j \in at : \A k \in at : j <= k
    IN  IF at = {} \/ i = Len(l) THEN ListEnd ELSE l[i + 1]

\* resource_lock.lock() can return for thread t
CanLock(t) == resource_lock.owner \in {"none", t}
Locked(t) == [owner |-> t, count |-> resource_lock.count + 1]
Unlocked ==
    IF resource_lock.count = 1
    THEN [owner |-> "none", count |-> 0]
    ELSE [owner |-> resource_lock.owner, count |-> resource_lock.count - 1]

\* info.endpointId = static_cast<EndpointID>(uintptr_t(handle) & 0xFFFFFFFF)
EndpointOf(handle) == Cast(BitAnd(handle, Mask32), 4)

\* std::string(name.begin(), name.end()) for a std::wstring name: each wide
\* character is converted to char
Narrow(name) == [i \in 1..Len(name) |-> name[i] % 256]

\* GetDeviceName
GetDeviceName(handle) ==
    IF handle \in DOMAIN handle_to_device_info
    THEN Narrow(handle_to_device_info[handle].deviceCaps)
    ELSE Unknown

\* arguments and results are sequences: an int as a sequence of one number
NoCall == [op |-> "none", arg |-> <<>>, ret |-> <<>>, removed |-> FALSE]
NoCallback == [hMidiIn |-> NullHandle, wMsg |-> "none", dwParam1 |-> Zero64, id |-> Zero32]
NoLocals ==
    [h |-> NullHandle, it |-> ListEnd, nxt |-> ListEnd, id |-> 0, caller |-> "none",
     n_before |-> 0, all_ok |-> TRUE, cnt0 |-> 0, registered |-> FALSE,
     h0 |-> << >>, closes |-> 0]
NoCodec == [stage |-> "off"]

Goto(t, l) == pc' = [pc EXCEPT ![t] = l]
Call(t, op, arg) ==
    host' = [host EXCEPT ![t] = [op |-> op, arg |-> arg, ret |-> <<>>, removed |-> FALSE]]

Init ==
    /\ handle_to_device_info = EmptyMap
    /\ endpoint_id_to_handle = EmptyMap
    /\ message_queue = << >>
    /\ active_handles = << >>
    /\ resource_lock = [owner |-> "none", count |-> 0]
    /\ os_handles = EmptyMap
    /\ pc = [t \in Threads |-> "idle"]
    /\ cb = [t \in Producers |-> NoCallback]
    /\ host = [t \in Hosts |-> NoCall]
    /\ lc = NoLocals
    /\ fault = "none"
    /\ pushed = << >>
    /\ returned = << >>
    /\ ndata = [t \in Producers |-> 0]
    /\ ncalls = 0
    /\ scenario \in Scenarios
    /\ codec = NoCodec

(***************************************************************************)
(* MidiInProc, on a driver thread                                          *)
(***************************************************************************)

Started == {h \in DOMAIN os_handles : os_handles[h].started}

\* the OS invokes MidiInProc(hMidiIn, wMsg, dwInstance, dwParam1, dwParam2):
\* MIM_DATA for a handle that midiInStart has started, other events for an
\* open handle (the handler reads neither hMidiIn nor dwParam1 of those: one
\* open handle stands for all)
MidiInProcCall(t) ==
    /\ fault = "none" /\ pc[t] = "idle"
    /\ \E h \in DOMAIN os_handles, e \in scenario.events, raw \in {Payload(t)} :
        /\ e = "MIM_DATA" => (h \in Started /\ ndata[t] < scenario.data[t])
        /\ e # "MIM_DATA" => h = (CHOOSE x \in DOMAIN os_handles : TRUE)
        /\ cb' = [cb EXCEPT ![t] = [hMidiIn |-> h, wMsg |-> e, dwParam1 |-> raw, id |-> Zero32]]
        /\ ndata' = [ndata EXCEPT ![t] = IF e = "MIM_DATA" THEN @ + 1 ELSE @]
    /\ Goto(t, "mip_test")
    /\ UNCHANGED <<registry, message_queue, resource_lock, os_handles, host, lc,
                   fault, pushed, returned, ncalls, scenario, codec>>

\* a handler that treats every event as data
MidiInProcAnyEvent(wMsg) == TRUE

\* if (wMsg == MIM_DATA)
MidiInProcIsData(wMsg) == wMsg = "MIM_DATA"

MidiInProcTest(t) ==
    /\ fault = "none" /\ pc[t] = "mip_test"
    /\ IF MidiInProcIsData(cb[t].wMsg)
       THEN Goto(t, "mip_read") /\ cb' = cb
       ELSE Goto(t, "idle") /\ cb' = [cb EXCEPT ![t] = NoCallback]
    /\ UNCHANGED <<registry, message_queue, resource_lock, os_handles, host, lc,
                   fault, history>>

\* EndpointID id = handle_to_device_info[hMidiIn].endpointId;  (no lock held)
MidiInProcRead(t) ==
    /\ fault = "none" /\ pc[t] = "mip_read"
    /\ LET m == MapIndex(handle_to_device_info, cb[t].hMidiIn, DefaultDeviceInfo)
       IN  /\ handle_to_device_info' = m
           /\ cb' = [cb EXCEPT ![t].id = m[cb[t].hMidiIn].endpointId]
    /\ Goto(t, "mip_lock")
    /\ UNCHANGED <<endpoint_id_to_handle, active_handles, message_queue, resource_lock,
                   os_handles, host, lc, fault, history>>

\* resource_lock.lock();
MidiInProcLock(t) ==
    /\ fault = "none" /\ pc[t] = "mip_lock"
    /\ CanLock(t)
    /\ resource_lock' = Locked(t)
    /\ Goto(t, "mip_push")
    /\ UNCHANGED <<registry, message_queue, os_handles, cb, host, lc, fault, history>>

\* a queue that pushes at the front
QueuePushFront(q, m) == <<m>> \o q

\* message_queue.push
QueuePush(q, m) == Append(q, m)

\* message_queue.push(MidiMessage(id, raw)); resource_lock.unlock();
MidiInProcPush(t) ==
    /\ fault = "none" /\ pc[t] = "mip_push"
    /\ LET m == MidiMessage(cb[t].id, Cast(cb[t].dwParam1, 4))
       IN  /\ message_queue' = QueuePush(message_queue, m)
           /\ pushed' = Append(pushed, m)
    /\ resource_lock' = Unlocked
    /\ cb' = [cb EXCEPT ![t] = NoCallback]
    /\ Goto(t, "idle")
    /\ UNCHANGED <<registry, os_handles, host, lc, fault, returned, ndata, ncalls,
                   scenario, codec>>

MidiInProc(t) ==
    \/ MidiInProcCall(t)
    \/ MidiInProcTest(t)
    \/ MidiInProcRead(t)
    \/ MidiInProcLock(t)
    \/ MidiInProcPush(t)

(***************************************************************************)
(* MidiJackDequeueIncomingData                                             *)
(***************************************************************************)

\* an emptiness test that always answers "empty"
QueueAlwaysEmpty(q) == TRUE

\* message_queue.empty()
QueueEmpty(q) == q = << >>

\* if (message_queue.empty()) return 0;   (no lock held)
DequeueCheck(t) ==
    /\ fault = "none" /\ pc[t] = "idle" /\ t \in scenario.pollers
    /\ IF QueueEmpty(message_queue)
       THEN /\ host' = [host EXCEPT ![t] = [op |-> "MidiJackDequeueIncomingData",
                                            arg |-> <<>>, ret |-> Zero64, removed |-> FALSE]]
            /\ Goto(t, "ret")
       ELSE /\ Call(t, "MidiJackDequeueIncomingData", <<>>)
            /\ Goto(t, "dq_lock")
    /\ UNCHANGED <<registry, message_queue, resource_lock, os_handles, cb, lc, fault,
                   history>>

\* resource_lock.lock();
DequeueLock(t) ==
    /\ fault = "none" /\ pc[t] = "dq_lock"
    /\ CanLock(t)
    /\ resource_lock' = Locked(t)
    /\ Goto(t, "dq_pop")
    /\ UNCHANGED <<registry, message_queue, os_handles, cb, host, lc, fault, history>>

\* a dequeue that reads the front element and leaves it in the queue
QueueFrontNoPop(q) == [msg |-> Head(q), rest |-> q]

\* message_queue.front() and message_queue.pop()
QueuePop(q) == [msg |-> Head(q), rest |-> Tail(q)]

\* auto msg = message_queue.front(); message_queue.pop(); resource_lock.unlock();
\* return msg.Encode64Bit();    front() of an empty queue is undefined
DequeuePop(t) ==
    /\ fault = "none" /\ pc[t] = "dq_pop"
    /\ IF message_queue = << >>
       THEN /\ fault' = "front_of_empty_queue"
            /\ UNCHANGED <<message_queue, resource_lock, host, returned, pc>>
       ELSE LET p == QueuePop(message_queue)
                v == Encode64Bit(p.msg)
            IN  /\ message_queue' = p.rest
                /\ resource_lock' = Unlocked
                /\ host' = [host EXCEPT ![t].ret = v, ![t].removed = TRUE]
                /\ returned' = IF v # Zero64 THEN Append(returned, v) ELSE returned
                /\ Goto(t, "ret")
                /\ fault' = fault
    /\ UNCHANGED <<registry, os_handles, cb, lc, pushed, ndata, ncalls, scenario, codec>>

MidiJackDequeueIncomingData(t) ==
    \/ DequeueCheck(t)
    \/ DequeueLock(t)
    \/ DequeuePop(t)

\* an exported function returns to the host
Return(t) ==
    /\ fault = "none" /\ pc[t] = "ret"
    /\ host' = [host EXCEPT ![t] = NoCall]
    /\ lc' = IF t = "main" THEN NoLocals ELSE lc
    /\ Goto(t, "idle")
    /\ UNCHANGED <<registry, message_queue, resource_lock, os_handles, cb, fault,
                   history>>

(***************************************************************************)
(* CloseDevice(handle), called with resource_lock held by its caller       *)
(***************************************************************************)

others == <<message_queue, cb, host, pushed, returned, ndata, ncalls, scenario, codec>>

\* midiInClose(handle);
CloseDeviceClose(t) ==
    /\ fault = "none" /\ pc[t] = "cd_close"
    /\ os_handles' = MapErase(os_handles, lc.h)
    /\ lc' = [lc EXCEPT !.cnt0 = Len(active_handles), !.closes = @ + 1]
    /\ Goto(t, "cd_remove")
    /\ UNCHANGED <<registry, resource_lock, fault, others>>

\* resource_lock.lock(); active_handles.remove(handle);
CloseDeviceRemove(t) ==
    /\ fault = "none" /\ pc[t] = "cd_remove"
    /\ CanLock(t)
    /\ resource_lock' = Locked(t)
    /\ active_handles' = ListRemove(active_handles, lc.h)
    /\ Goto(t, "cd_erase_id")
    /\ UNCHANGED <<handle_to_device_info, endpoint_id_to_handle, os_handles, lc, fault,
                   others>>

\* EndpointID endpoint_id = handle_to_device_info[handle].endpointId;
\* endpoint_id_to_handle.erase(endpoint_id);
CloseDeviceEraseId(t) ==
    /\ fault = "none" /\ pc[t] = "cd_erase_id"
    /\ LET m == MapIndex(handle_to_device_info, lc.h, DefaultDeviceInfo)
           endpoint_id == m[lc.h].endpointId
       IN  /\ handle_to_device_info' = m
           /\ endpoint_id_to_handle' = MapErase(endpoint_id_to_handle, endpoint_id)
    /\ Goto(t, "cd_erase_handle")
    /\ UNCHANGED <<active_handles, resource_lock, os_handles, lc, fault, others>>

\* handle_to_device_info.erase(handle); resource_lock.unlock(); and CloseDevice
\* returns (position cd_ret, in the loop that called it)
CloseDeviceEraseHandle(t) ==
    /\ fault = "none" /\ pc[t] = "cd_erase_handle"
    /\ handle_to_device_info' = MapErase(handle_to_device_info, lc.h)
    /\ resource_lock' = Unlocked
    /\ Goto(t, "cd_ret")
    /\ UNCHANGED <<endpoint_id_to_handle, active_handles, os_handles, lc, fault, others>>

CloseDevice(t) ==
    \/ CloseDeviceClose(t)
    \/ CloseDeviceRemove(t)
    \/ CloseDeviceEraseId(t)
    \/ CloseDeviceEraseHandle(t)

(***************************************************************************)
(* OpenDevice(deviceId)                                                    *)
(***************************************************************************)

\* a DeviceInfo whose deviceCaps midiInGetDevCaps never filled
DeviceInfoNoCaps(handle, deviceId) ==
    [handle |-> handle, deviceId |-> deviceId, endpointId |-> EndpointOf(handle),
     deviceCaps |-> <<>>]

\* the DeviceInfo OpenDevice builds for handle and deviceId
DeviceInfoFor(handle, deviceId) ==
    [handle |-> handle, deviceId |-> deviceId, endpointId |-> EndpointOf(handle),
     deviceCaps |-> szPname(deviceId)]

\* midiInOpen(&handle, deviceId, ...): succeeds with a handle value not in use,
\* or fails
OpenDeviceOpen(t) ==
    /\ fault = "none" /\ pc[t] = "od_open"
    /\ \/ \E h \in HandlePool \ DOMAIN os_handles :
            /\ os_handles' = (h :> [deviceId |-> lc.id, started |-> FALSE]) @@ os_handles
            /\ lc' = [lc EXCEPT !.h = h, !.cnt0 = Len(active_handles), !.registered = FALSE]
            /\ Goto(t, "od_start")
       \/ /\ scenario.failures \/ HandlePool \subseteq DOMAIN os_handles
          /\ lc' = [lc EXCEPT !.h = NullHandle, !.cnt0 = Len(active_handles),
                              !.registered = FALSE, !.all_ok = FALSE]
          /\ Goto(t, "od_ret")
          /\ UNCHANGED os_handles
    /\ UNCHANGED <<registry, resource_lock, fault, others>>

\* midiInStart(handle): from here on the OS delivers MIM_DATA for handle;
\* on failure midiInClose(handle)
OpenDeviceStart(t) ==
    /\ fault = "none" /\ pc[t] = "od_start"
    /\ \/ /\ os_handles' = [os_handles EXCEPT ![lc.h].started = TRUE]
          /\ Goto(t, "od_caps")
          /\ UNCHANGED lc
       \/ /\ scenario.failures
          /\ os_handles' = MapErase(os_handles, lc.h)
          /\ lc' = [lc EXCEPT !.all_ok = FALSE]
          /\ Goto(t, "od_ret")
    /\ UNCHANGED <<registry, resource_lock, fault, others>>

\* midiInGetDevCaps(deviceId, &info.deviceCaps, ...) succeeds:
\*     resource_lock.lock(); endpoint_id_to_handle[info.endpointId] = handle;
\* or fails: midiInClose(handle)
OpenDeviceCaps(t) ==
    /\ fault = "none" /\ pc[t] = "od_caps"
    /\ \/ /\ CanLock(t)
          /\ resource_lock' = Locked(t)
          /\ endpoint_id_to_handle' =
                 MapAssign(endpoint_id_to_handle, DeviceInfoFor(lc.h, lc.id).endpointId, lc.h)
          /\ Goto(t, "od_reg_info")
          /\ UNCHANGED <<os_handles, lc>>
       \/ /\ scenario.failures
          /\ os_handles' = MapErase(os_handles, lc.h)
          /\ lc' = [lc EXCEPT !.all_ok = FALSE]
          /\ Goto(t, "od_ret")
          /\ UNCHANGED <<resource_lock, endpoint_id_to_handle>>
    /\ UNCHANGED <<handle_to_device_info, active_handles, fault, others>>

\* handle_to_device_info[handle] = info;
OpenDeviceRegisterInfo(t) ==
    /\ fault = "none" /\ pc[t] = "od_reg_info"
    /\ handle_to_device_info' =
           MapAssign(handle_to_device_info, lc.h, DeviceInfoFor(lc.h, lc.id))
    /\ Goto(t, "od_reg_active")
    /\ UNCHANGED <<endpoint_id_to_handle, active_handles, resource_lock, os_handles, lc,
                   fault, others>>

\* active_handles.push_back(handle); resource_lock.unlock(); and OpenDevice
\* returns (position od_ret, in OpenAllDevices)
OpenDeviceRegisterActive(t) ==
    /\ fault = "none" /\ pc[t] = "od_reg_active"
    /\ active_handles' = Append(active_handles, lc.h)
    /\ resource_lock' = Unlocked
    /\ lc' = [lc EXCEPT !.registered = TRUE]
    /\ Goto(t, "od_ret")
    /\ UNCHANGED <<handle_to_device_info, endpoint_id_to_handle, os_handles, fault, others>>

OpenDevice(t) ==
    \/ OpenDeviceOpen(t)
    \/ OpenDeviceStart(t)
    \/ OpenDeviceCaps(t)
    \/ OpenDeviceRegisterInfo(t)
    \/ OpenDeviceRegisterActive(t)

\* uint32_t device_count = midiInGetNumDevs();
\* for (DeviceID id = 0; id < device_count; id++) OpenDevice(id);
OpenAllDevices(t) ==
    /\ fault = "none" /\ pc[t] \in {"oa_loop", "od_ret"}
    /\ LET id == IF pc[t] = "oa_loop" THEN 0 ELSE lc.id + 1
       IN  /\ lc' = [lc EXCEPT !.id = id]
           /\ Goto(t, IF id < NumDevs THEN "od_open" ELSE "rf_unlock")
    /\ UNCHANGED <<registry, resource_lock, os_handles, fault, others>>

(***************************************************************************)
(* RefreshDevices / MidiJackRefreshEndpoints                               *)
(***************************************************************************)

RefreshCall(t) ==
    /\ fault = "none" /\ pc[t] = "idle" /\ ncalls < scenario.calls
    /\ Call(t, "MidiJackRefreshEndpoints", <<>>)
    /\ lc' = [NoLocals EXCEPT !.n_before = Len(active_handles), !.caller = "RefreshDevices",
                               !.h0 = active_handles]
    /\ ncalls' = ncalls + 1
    /\ Goto(t, "rf_lock")
    /\ UNCHANGED <<registry, message_queue, resource_lock, os_handles, cb, fault,
                   pushed, returned, ndata, scenario, codec>>

\* resource_lock.lock(); the range-for takes active_handles.begin()
RefreshLock(t) ==
    /\ fault = "none" /\ pc[t] = "rf_lock"
    /\ CanLock(t)
    /\ resource_lock' = Locked(t)
    /\ lc' = [lc EXCEPT !.it = IF active_handles = << >> THEN ListEnd
                                ELSE Head(active_handles)]
    /\ Goto(t, "rf_loop")
    /\ UNCHANGED <<registry, os_handles, fault, others>>

\* for (auto h : active_handles) { CloseDevice(h); }  OpenAllDevices();
\* entered from begin() (rf_loop) or when CloseDevice(h) has returned (cd_ret),
\* where ++it reads the list node that active_handles.remove(h) has freed: the
\* read is undefined; it yields the next pointer the node held when it was
\* unlinked (nxt), or the process faults
RefreshLoop(t) ==
    /\ fault = "none"
    /\ \/ pc[t] = "rf_loop"
       \/ pc[t] = "cd_ret" /\ lc.caller = "RefreshDevices"
    /\ \/ LET it == IF pc[t] = "rf_loop" THEN lc.it
                    ELSE IF ListHas(active_handles, lc.it)
                         THEN ListNext(active_handles, lc.it)
                         ELSE lc.nxt
          IN  /\ IF it = ListEnd
                 THEN /\ lc' = [lc EXCEPT !.it = it]
                      /\ Goto(t, "oa_loop")
                 ELSE /\ lc' = [lc EXCEPT !.it = it, !.h = it,
                                          !.nxt = ListNext(active_handles, it)]
                      /\ Goto(t, "cd_close")
              /\ fault' = fault
       \/ /\ pc[t] = "cd_ret" /\ ~ListHas(active_handles, lc.it)
          /\ fault' = "increment_of_erased_list_iterator"
          /\ UNCHANGED <<lc, pc>>
    /\ UNCHANGED <<registry, resource_lock, os_handles, others>>

\* resource_lock.unlock();   (end of RefreshDevices)
RefreshUnlock(t) ==
    /\ fault = "none" /\ pc[t] = "rf_unlock"
    /\ resource_lock' = Unlocked
    /\ Goto(t, "rf_size")
    /\ UNCHANGED <<registry, os_handles, lc, fault, others>>

\* return static_cast<int>(active_handles.size());
RefreshSize(t) ==
    /\ fault = "none" /\ pc[t] = "rf_size"
    /\ host' = [host EXCEPT ![t].ret = <<Len(active_handles)>>]
    /\ Goto(t, "ret")
    /\ UNCHANGED <<registry, message_queue, resource_lock, os_handles, cb, lc, fault,
                   history>>

MidiJackRefreshEndpoints(t) ==
    \/ RefreshCall(t)
    \/ RefreshLock(t)
    \/ RefreshLoop(t)
    \/ RefreshUnlock(t)
    \/ RefreshSize(t)

(***************************************************************************)
(* CloseAllDevices (no exported function of this file calls it; the        *)
(* lifecycle thread runs it as an operation of its own)                    *)
(***************************************************************************)

CloseAllCall(t) ==
    /\ fault = "none" /\ pc[t] = "idle" /\ ncalls < scenario.calls
    /\ Call(t, "CloseAllDevices", <<>>)
    /\ lc' = [NoLocals EXCEPT !.n_before = Len(active_handles), !.caller = "CloseAllDevices",
                               !.h0 = active_handles]
    /\ ncalls' = ncalls + 1
    /\ Goto(t, "ca_lock")
    /\ UNCHANGED <<registry, message_queue, resource_lock, os_handles, cb, fault,
                   pushed, returned, ndata, scenario, codec>>

\* resource_lock.lock();
CloseAllLock(t) ==
    /\ fault = "none" /\ pc[t] = "ca_lock"
    /\ CanLock(t)
    /\ resource_lock' = Locked(t)
    /\ Goto(t, "ca_loop")
    /\ UNCHANGED <<registry, os_handles, lc, fault, others>>

\* while (!active_handles.empty()) CloseDevice(active_handles.front());
\* resource_lock.unlock();
CloseAllLoop(t) ==
    /\ fault = "none"
    /\ \/ pc[t] = "ca_loop"
       \/ pc[t] = "cd_ret" /\ lc.caller = "CloseAllDevices"
    /\ IF active_handles = << >>
       THEN /\ resource_lock' = Unlocked
            /\ Goto(t, "ret")
            /\ UNCHANGED lc
       ELSE /\ lc' = [lc EXCEPT !.h = Head(active_handles)]
            /\ Goto(t, "cd_close")
            /\ UNCHANGED resource_lock
    /\ UNCHANGED <<registry, os_handles, fault, others>>

CloseAllDevices(t) ==
    \/ CloseAllCall(t)
    \/ CloseAllLock(t)
    \/ CloseAllLoop(t)

(***************************************************************************)
(* The enumeration and name queries (no lock taken)                        *)
(***************************************************************************)

\* return static_cast<int>(active_handles.size());
MidiJackCountEndpoints(t) ==
    /\ fault = "none" /\ pc[t] = "idle" /\ scenario.queries
    /\ host' = [host EXCEPT ![t] = [op |-> "MidiJackCountEndpoints", arg |-> <<>>,
                                    ret |-> <<Len(active_handles)>>, removed |-> FALSE]]
    /\ Goto(t, "ret")
    /\ UNCHANGED <<registry, message_queue, resource_lock, os_handles, cb, lc, fault,
                   history>>

\* indices the host passes
Indices == (0 - 1)..NumDevs

\* the value MidiJackGetEndpointIDAtIndex(index) returns for an index in range
EndpointIDAtIndex(index) ==
    LET h == active_handles[index + 1]
    IN  MapIndex(handle_to_device_info, h, DefaultDeviceInfo)[h].endpointId

\* auto itr = active_handles.begin(); std::advance(itr, index);
\* return handle_to_device_info[*itr].endpointId;
\* advancing to or past end(), or before begin(), and reading *itr is undefined
MidiJackGetEndpointIDAtIndex(t) ==
    /\ fault = "none" /\ pc[t] = "idle" /\ scenario.queries
    /\ \E index \in Indices :
        IF index >= 0 /\ index < Len(active_handles)
        THEN LET h == active_handles[index + 1]
                 m == MapIndex(handle_to_device_info, h, DefaultDeviceInfo)
             IN  /\ handle_to_device_info' = m
                 /\ host' = [host EXCEPT ![t] = [op |-> "MidiJackGetEndpointIDAtIndex",
                                                 arg |-> <<index>>,
                                                 ret |-> EndpointIDAtIndex(index),
                                                 removed |-> FALSE]]
                 /\ Goto(t, "ret")
                 /\ fault' = fault
        ELSE /\ fault' = "list_iterator_out_of_range"
             /\ Call(t, "MidiJackGetEndpointIDAtIndex", <<index>>)
             /\ UNCHANGED <<handle_to_device_info, pc>>
    /\ UNCHANGED <<endpoint_id_to_handle, active_handles, message_queue, resource_lock,
                   os_handles, cb, lc, history>>

\* identifiers the host passes: those the pool's handles give
QueryIds == {EndpointOf(h) : h \in HandlePool}

\* what MidiJackGetEndpointName(id) returns in the current state
EndpointName(id) ==
    GetDeviceName(MapIndex(endpoint_id_to_handle, id, NullHandle)[id])

\* auto handle = endpoint_id_to_handle[id]; buffer = GetDeviceName(handle);
\* return buffer.c_str();
MidiJackGetEndpointName(t) ==
    /\ fault = "none" /\ pc[t] = "idle" /\ scenario.queries
    /\ \E id \in QueryIds :
        /\ endpoint_id_to_handle' = MapIndex(endpoint_id_to_handle, id, NullHandle)
        /\ host' = [host EXCEPT ![t] = [op |-> "MidiJackGetEndpointName", arg |-> id,
                                        ret |-> EndpointName(id), removed |-> FALSE]]
    /\ Goto(t, "ret")
    /\ UNCHANGED <<handle_to_device_info, active_handles, message_queue, resource_lock,
                   os_handles, cb, lc, fault, history>>

(***************************************************************************)
(* The program                                                             *)
(***************************************************************************)

Next ==
    \/ \E t \in Producers : MidiInProc(t)
    \/ \E t \in Hosts : MidiJackDequeueIncomingData(t) \/ Return(t)
    \/ MidiJackRefreshEndpoints("main")
    \/ CloseDevice("main")
    \/ OpenAllDevices("main")
    \/ OpenDevice("main")
    \/ CloseAllDevices("main")
    \/ MidiJackCountEndpoints("main")
    \/ MidiJackGetEndpointIDAtIndex("main")
    \/ MidiJackGetEndpointName("main")

Spec == Init /\ [][Next]_vars

\* fair scheduling: a driver thread inside MidiInProc and a host thread inside
\* an exported function keep being scheduled, and a polling host keeps
\* calling MidiJackDequeueIncomingData; the OS is not obliged to deliver
\* events, nor the host to call the lifecycle functions or the queries
ProducerStep(t) ==
    MidiInProcTest(t) \/ MidiInProcRead(t) \/ MidiInProcLock(t) \/ MidiInProcPush(t)

HostStep(t) ==
    \/ DequeueLock(t) \/ DequeuePop(t) \/ Return(t)
    \/ /\ t = "main"
       /\ \/ RefreshLock(t) \/ RefreshLoop(t) \/ RefreshUnlock(t) \/ RefreshSize(t)
          \/ CloseAllLock(t) \/ CloseAllLoop(t)
          \/ CloseDevice(t) \/ OpenAllDevices(t) \/ OpenDevice(t)

FairSpec ==
    /\ Init /\ [][Next]_vars
    /\ \A t \in Producers : WF_vars(ProducerStep(t))
    /\ \A t \in Hosts : WF_vars(HostStep(t)) /\ WF_vars(DequeueCheck(t))

(***************************************************************************)
(* The codec on its own: MidiMessage(e, r), Encode64Bit, and the client's  *)
(* decoding, for endpoint identifiers and raw payloads drawn from bytes at *)
(* the edges of their range                                                *)
(***************************************************************************)

EdgeBytes == {0, 1, 255}
PayloadBytes == {0, 128, 255}
CodecIds == {<<a, b, c, d>> : a \in EdgeBytes, b \in EdgeBytes, c \in EdgeBytes, d \in EdgeBytes}
CodecRaws == {<<a, b, c, d>> : a \in PayloadBytes, b \in PayloadBytes, c \in PayloadBytes,
                               d \in {0, 255}}

CodecInit ==
    /\ handle_to_device_info = EmptyMap
    /\ endpoint_id_to_handle = EmptyMap
    /\ message_queue = << >>
    /\ active_handles = << >>
    /\ resource_lock = [owner |-> "none", count |-> 0]
    /\ os_handles = EmptyMap
    /\ pc = [t \in Threads |-> "idle"]
    /\ cb = [t \in Producers |-> NoCallback]
    /\ host = [t \in Hosts |-> NoCall]
    /\ lc = NoLocals
    /\ fault = "none"
    /\ pushed = << >>
    /\ returned = << >>
    /\ ndata = [t \in Producers |-> 0]
    /\ ncalls = 0
    /\ scenario = CHOOSE x \in Scenarios : x.name = "lifecycle"
    /\ \E e \in CodecIds, r \in CodecRaws : codec = [stage |-> "input", e |-> e, r |-> r]

program == <<handle_to_device_info, endpoint_id_to_handle, message_queue,
             active_handles, resource_lock, os_handles, pc, cb, host, lc, fault,
             pushed, returned, ndata, ncalls, scenario>>

\* MidiMessage(id, raw)
CodecConstruct ==
    /\ codec.stage = "input"
    /\ codec' = [stage |-> "message", e |-> codec.e, r |-> codec.r,
                 msg |-> MidiMessage(codec.e, codec.r)]
    /\ UNCHANGED program

\* msg.Encode64Bit()
CodecEncode ==
    /\ codec.stage = "message"
    /\ codec' = [stage |-> "encoded", e |-> codec.e, r |-> codec.r,
                 v |-> Encode64Bit(codec.msg)]
    /\ UNCHANGED program

\* the client's shifts and masks
CodecDecode ==
    /\ codec.stage = "encoded"
    /\ codec' = [stage |-> "decoded", e |-> codec.e, r |-> codec.r, v |-> codec.v,
                 dec |-> ClientDecode(codec.v)]
    /\ UNCHANGED program

CodecNext == CodecConstruct \/ CodecEncode \/ CodecDecode

CodecSpec == CodecInit /\ [][CodecNext]_vars

(***************************************************************************)
(* Properties                                                              *)
(***************************************************************************)

EncodeAll(q) == [i \in 1..Len(q) |-> Encode64Bit(q[i])]
IsPrefix(s, t) == Len(s) <= Len(t) /\ SubSeq(t, 1, Len(s)) = s
InDequeueReturn(t) == pc[t] = "ret" /\ host[t].op = "MidiJackDequeueIncomingData"
InRefreshReturn == pc["main"] = "ret" /\ host["main"].op = "MidiJackRefreshEndpoints"

\* C1: the non-zero values dequeue has returned are, in every state, a prefix
\* of the encodings of the messages in the order the callbacks pushed them; a
\* dequeue that starts when every pushed message has been returned returns 0
C1_FifoOrder ==
    /\ IsPrefix(returned, EncodeAll(pushed))
    /\ \A t \in Hosts :
        (InDequeueReturn(t) /\ ~host[t].removed) => host[t].ret = Zero64
    /\ \A t \in Hosts :
        (InDequeueReturn(t) /\ host[t].removed) =>
            (returned # << >> /\ \E i \in 1..Len(returned) : returned[i] = host[t].ret)

\* two different messages were returned in the order they were pushed, and a
\* dequeue after the last of them has returned 0
C1_Witness ==
    /\ Len(returned) = 2 /\ returned[1] # returned[2]
    /\ Len(pushed) = 2 /\ message_queue = << >>
    /\ \E t \in Hosts : InDequeueReturn(t) /\ ~host[t].removed

\* every producer has delivered all its data callbacks and returned, the
\* queue is empty and no dequeue is in progress
Quiescent ==
    /\ \A t \in Producers : pc[t] = "idle" /\ ndata[t] = scenario.data[t]
    /\ \A t \in Hosts : pc[t] \in {"idle", "ret"} \/ t \notin scenario.pollers
    /\ message_queue = << >>

RECURSIVE SumData(_)
SumData(S) ==
    IF S = {} THEN 0
    ELSE LET t == CHOOSE x \in S : TRUE IN scenario.data[t] + SumData(S \ {t})

\* C2: the values returned so far followed by the encodings of the messages
\* still queued are exactly the encodings of the messages pushed (nothing is
\* lost, duplicated or altered), and once all N producers have delivered their
\* K callbacks and the queue is drained, N*K values have been returned
C2_NoLossNoDuplication ==
    /\ returned \o EncodeAll(message_queue) = EncodeAll(pushed)
    /\ Quiescent => Len(returned) = SumData(Producers)

\* both producers delivered, concurrently with dequeues, and all was drained
C2_Witness ==
    /\ Quiescent
    /\ Len(returned) = Cardinality(Producers) * MsgsPerProducer
    /\ \A t \in Producers : scenario.data[t] = MsgsPerProducer
    /\ fault = "none"

\* C3: MidiMessage(e, r) encodes to the 64-bit value whose bytes are the four
\* bytes of e, then r mod 256, (r div 2^8) mod 256, (r div 2^16) mod 256, then
\* a zero byte; the client's decoding of it gives back (e, status, data1, data2)
C3_CodecRoundTrip ==
    /\ codec.stage \in {"encoded", "decoded"} =>
           codec.v = <<codec.e[1], codec.e[2], codec.e[3], codec.e[4],
                       codec.r[1], codec.r[2], codec.r[3], 0>>
    /\ codec.stage = "decoded" =>
           codec.dec = [source |-> codec.e, status |-> <<codec.r[1]>>,
                        data1 |-> <<codec.r[2]>>, data2 |-> <<codec.r[3]>>]

\* the largest identifier and a payload with bits above bit 23 went through
C3_Witness ==
    /\ codec.stage = "decoded"
    /\ codec.e = <<255, 255, 255, 255>>
    /\ codec.r = <<128, 255, 0, 255>>
    /\ codec.dec.data1 = <<255>>

C5_RefreshPreservesCount ==
    (InRefreshReturn /\ lc.all_ok) =>
        (Len(active_handles) = lc.n_before /\ host["main"].ret = <<lc.n_before>>)

\* C5: a refresh whose opens all succeeded ends with as many active devices
\* as midiInGetNumDevs() reports, and returns that number
C5_RefreshOpensEveryDevice ==
    (InRefreshReturn /\ lc.all_ok) =>
        (Len(active_handles) = NumDevs /\ host["main"].ret = <<NumDevs>>)

\* a refresh that started with every device active has returned
C5_Witness ==
    InRefreshReturn /\ lc.all_ok /\ lc.n_before = NumDevs /\ lc.n_before > 0

NoRefreshInProgress == pc["main"] \in {"idle", "ret"}

\* C6: with no refresh in progress, different indices below the count give
\* different endpoint identifiers
C6_DistinctIdentifiers ==
    NoRefreshInProgress =>
        \A i, j \in 0..(Len(active_handles) - 1) :
            i # j => EndpointIDAtIndex(i) # EndpointIDAtIndex(j)

\* C7: no index lookup reads past the end of active_handles, and a name
\* lookup for an identifier that is not registered returns "unknown"
C7_LookupsDoNotFault ==
    /\ fault # "list_iterator_out_of_range"
    /\ (pc["main"] = "ret" /\ host["main"].op = "MidiJackGetEndpointName"
        /\ \A i \in 1..Len(active_handles) :
               EndpointOf(active_handles[i]) # host["main"].arg)
           => host["main"].ret = Unknown

\* C8: when OpenDevice has registered handle h, the name lookup for h's
\* identifier gives h's device name as chars (the name itself when all its
\* characters fit a char) and the count is one more than before;
\* when CloseDevice(h) has returned, the lookup gives "unknown" and the count
\* is one less than before
C8_RegistryPerDevice ==
    /\ (pc["main"] = "od_ret" /\ lc.registered) =>
           /\ EndpointName(EndpointOf(lc.h)) = Narrow(szPname(lc.id))
           /\ (\A i \in 1..Len(szPname(lc.id)) : szPname(lc.id)[i] < 256)
                  => EndpointName(EndpointOf(lc.h)) = szPname(lc.id)
           /\ EndpointName(EndpointOf(lc.h)) # Unknown
           /\ Len(active_handles) = lc.cnt0 + 1
    /\ pc["main"] = "cd_ret" =>
           /\ EndpointName(EndpointOf(lc.h)) = Unknown
           /\ Len(active_handles) = lc.cnt0 - 1

\* a device was registered again in a refresh that had closed active devices
C8_Witness ==
    pc["main"] = "od_ret" /\ lc.registered /\ lc.n_before > 0 /\ lc.cnt0 = 1

\* C9: the step a MidiInProc invocation takes for an event other than
\* MIM_DATA returns to the OS and changes neither the queue, nor the active
\* handle list, nor a registry map, nor the lock
C9_NonDataIgnored ==
    [][\A t \in Producers :
          (pc[t] = "mip_test" /\ cb[t].wMsg # "MIM_DATA" /\ pc'[t] # pc[t])
              => /\ pc'[t] = "idle"
                 /\ UNCHANGED <<message_queue, registry, resource_lock>>]_vars

\* a non-data event was delivered while devices are active and a message is
\* queued
C9_Witness ==
    \E t \in Producers :
        /\ pc[t] = "mip_test" /\ cb[t].wMsg = "MIM_CLOSE"
        /\ active_handles # << >> /\ message_queue # << >>

\* C10: whenever no thread holds resource_lock, every active handle is in the
\* list once, has a DeviceInfo whose handle field is that handle, and
\* endpoint_id_to_handle maps the DeviceInfo's endpointId back to it
C10_RegistryInvariant ==
    resource_lock.owner = "none" =>
        \A i \in 1..Len(active_handles) :
            LET h == active_handles[i]
            IN  /\ \A j \in 1..Len(active_handles) : active_handles[j] = h => j = i
                /\ h \in DOMAIN handle_to_device_info
                /\ handle_to_device_info[h].handle = h
                /\ handle_to_device_info[h].endpointId \in DOMAIN endpoint_id_to_handle
                /\ endpoint_id_to_handle[handle_to_device_info[h].endpointId] = h

ActiveSet == {active_handles[i] : i \in 1..Len(active_handles)}

\* C11: whenever no thread holds resource_lock, the keys of
\* handle_to_device_info and the values of endpoint_id_to_handle are exactly
\* the handles in active_handles
C11_AllOrNothing ==
    resource_lock.owner = "none" =>
        /\ DOMAIN handle_to_device_info = ActiveSet
        /\ {endpoint_id_to_handle[id] : id \in DOMAIN endpoint_id_to_handle} = ActiveSet

\* C12: a step of a thread that changes a registry map, active_handles or
\* message_queue is taken while that thread holds resource_lock (before the
\* step, or from the step on when the step itself acquires the lock)
C12_LockDiscipline ==
    [][\A t \in Threads :
          (pc'[t] # pc[t] /\ <<registry, message_queue>>' # <<registry, message_queue>>)
              => (resource_lock.owner = t \/ resource_lock'.owner = t)]_vars

\* C13: no dequeue call reaches front()/pop() with the queue empty
C13_BenignEmptinessCheck ==
    /\ fault # "front_of_empty_queue"
    /\ \A t \in Hosts : pc[t] = "dq_pop" => message_queue # << >>

\* C14: the message a callback is about to push for handle h carries the
\* identifier derived from h as its source
C14_SourceIdentity ==
    \A t \in Producers : pc[t] = "mip_push" => cb[t].id = EndpointOf(cb[t].hMidiIn)

\* C17: when CloseDevice(h) has returned into the loop of RefreshDevices, the
\* element the loop's iterator stands on is still in active_handles (so that
\* advancing it reads no removed element), and the open phase starts only
\* with the registry empty of the handles the refresh started with
C17_RefreshClosesThenOpens ==
    /\ (pc["main"] = "cd_ret" /\ lc.caller = "RefreshDevices")
           => ListHas(active_handles, lc.it)
    /\ fault # "increment_of_erased_list_iterator"
    /\ (pc["main"] = "oa_loop" /\ lc.caller = "RefreshDevices")
           => active_handles = << >>

\* C20: a step that is a call of MidiJackCountEndpoints, of
\* MidiJackGetEndpointIDAtIndex with an index in range, or of
\* MidiJackGetEndpointName leaves both registry maps, active_handles and
\* message_queue unchanged
C20_QueriesReadOnly ==
    [][(pc["main"] = "idle" /\ pc'["main"] = "ret"
        /\ host'["main"].op \in {"MidiJackCountEndpoints", "MidiJackGetEndpointIDAtIndex",
                                 "MidiJackGetEndpointName"})
          => UNCHANGED <<registry, message_queue>>]_vars

\* C18: when OpenDevice(d) has returned without registering (midiInOpen,
\* midiInStart or midiInGetDevCaps failed), no OS handle for d is open, the
\* handle it had obtained is in neither active_handles nor a registry map,
\* and OpenAllDevices ends only after the last device index
C18_OpenFailureIsLocal ==
    /\ (pc["main"] = "od_ret" /\ ~lc.registered) =>
           /\ \A h \in DOMAIN os_handles : os_handles[h].deviceId # lc.id
           /\ lc.h # NullHandle =>
                  /\ lc.h \notin ActiveSet
                  /\ lc.h \notin DOMAIN handle_to_device_info
                  /\ \A id \in DOMAIN endpoint_id_to_handle :
                         endpoint_id_to_handle[id] # lc.h
    /\ pc["main"] = "rf_unlock" => lc.id = NumDevs

InOpenOrCloseDevice ==
    pc["main"] \in {"od_start", "od_caps", "od_reg_info", "od_reg_active",
                    "cd_remove", "cd_erase_id", "cd_erase_handle"}

\* C19: CloseAllDevices started with n active handles returns after exactly
\* n CloseDevice calls with active_handles empty and no registry entry for a
\* handle it started with; outside OpenDevice and CloseDevice the open OS
\* handles are exactly the active handles, and CloseDevice is never called for
\* a handle that is already closed
C19_CloseAllTerminates ==
    /\ (pc["main"] = "ret" /\ host["main"].op = "CloseAllDevices") =>
           /\ active_handles = << >>
           /\ lc.closes = lc.n_before
           /\ \A i \in 1..Len(lc.h0) :
                  /\ lc.h0[i] \notin DOMAIN handle_to_device_info
                  /\ \A id \in DOMAIN endpoint_id_to_handle :
                         endpoint_id_to_handle[id] # lc.h0[i]
    /\ ~InOpenOrCloseDevice => DOMAIN os_handles = ActiveSet
    /\ pc["main"] = "cd_close" => lc.h \in DOMAIN os_handles

\* C15: under fair scheduling a data callback that has started returns, and
\* a RefreshDevices, CloseAllDevices or MidiJackDequeueIncomingData call that
\* waits for resource_lock returns
C15_NoIndefiniteBlocking ==
    /\ \A t \in Producers : (pc[t] = "mip_read") ~> (pc[t] = "idle")
    /\ (pc["main"] \in {"rf_lock", "ca_lock"}) ~> (pc["main"] = "ret")
    /\ \A t \in Hosts : (pc[t] = "dq_lock") ~> (pc[t] = "ret")

MaxPushed == Cardinality(Producers) * MsgsPerProducer

=============================================================================
